---- MODULE Spec2Model ----
(***************************************************************************)
(* One WebSocket chat session of the gateway, for both gateways of the     *)
(* repository:                                                             *)
(*   "raw"   - src/app.py  chat_ws: the raw tool-calling loop              *)
(*   "agent" - src/app1.py chat_ws: the agent-as-tool delegator            *)
(* The language model, the tools' collaborators, the agent library's       *)
(* run_stream and the client are the environment: their answers are drawn  *)
(* with \E from small sets.                                                *)
(***************************************************************************)
EXTENDS Integers, Sequences, FiniteSets, TLC

\* ------------------------------------------------------------------ bounds
\* user messages the client sends on the connection
MaxTurns == 2
\* ToolCalls the model may put into one response
MaxBatch == 2
\* length of the transcript up to which the model may still request tools
MaxMsgs == 8
\* events run_stream may yield in one turn
MaxStream == 2

\* The configured round-trip bound of spec section 4.3 (the source sets none).
RoundTripBound == 2

\* ------------------------------------------------------------- vocabulary
\* The names execute_tool knows.
RegisteredTools == {"predict_diabetes", "retrieve_documents"}

\* The names a model response may carry: the TOOLS it was offered, or any other.
ToolNames == RegisteredTools \cup {"other_tool"}

\* What tool_call.function.arguments may be: a JSON object matching the tool's
\* parameters, a JSON object that does not match them, or no JSON at all.
ArgKinds == {"valid", "mismatch", "malformed"}

\* What the client may send: an object with "content", or one without.
InboundKinds == {"valid", "nocontent"}

NoResult == "none"

VARIABLES
  gateway,    \* which chat_ws serves the connection: "raw" | "agent"
  pc,         \* the handler's position
  connected,  \* the client still holds the connection
  inbox,      \* inbound frames sent by the client, not yet received
  sent,       \* number of frames the client has sent
  messages,   \* app.py: the transcript (local list `messages`)
  snapshot,   \* app.py: the messages passed to the last model inference
  message,    \* app.py: response.choices[0].message of the last inference
  idx,        \* app.py: position of the for loop in message.tool_calls
  tool_result,\* app.py: value returned by execute_tool for the current call
  nextId,     \* ids the model provider has issued so far
  turn,       \* user messages received so far
  roundTrips, \* model responses with tool calls in the current turn
  streamed,   \* app1.py: events run_stream has yielded in the current turn
  raised,     \* the exception that ended the handler, or "none"
  log         \* everything observable, in order: frames, dispatches, appends

vars == <<gateway, pc, connected, inbox, sent, messages, snapshot, message, idx,
          tool_result, nextId, turn, roundTrips, streamed, raised, log>>

\* Several connections served by one process (one event loop).
VARIABLES
  mGateway,     \* which chat_ws serves the connections: "raw" | "agent"
  mPc,          \* each handler's position
  mInbox,       \* each connection's inbound user messages not yet received
  mSent,        \* user messages each client has sent
  mMessages,    \* app.py: each handler's local list `messages`
  agentContext, \* app1.py: the messages the module-level `assistant` holds
  mRequest,     \* the messages last passed to the model on behalf of each connection
  loopHolder    \* the handler inside a synchronous call on the event loop, or 0

connVars == <<mGateway, mPc, mInbox, mSent, mMessages, agentContext, mRequest, loopHolder>>

\* jina_vector_utils.chunk_text applied to one input
VARIABLES
  cWords,    \* len(text.split()): the words are numbered 0 .. cWords - 1
  cSize,     \* chunk_size
  cOverlap,  \* overlap
  cChunks,   \* the list returned
  cPc        \* "call" | "done"

chunkVars == <<cWords, cSize, cOverlap, cChunks, cPc>>

\* app.py ingest_data serving one POST /ingest
VARIABLES
  iText,       \* the form field `text`
  iPdf,        \* the form field `pdf`
  iPc,         \* the handler's position
  text,        \* the local `text` that is chunked
  source,      \* the local `source`
  document_id, \* the local `document_id`
  chunks,      \* the local `chunks`
  embeddings,  \* len(embeddings): how many the embedding service returned
  vectors,     \* the local `vectors`
  index,       \* the vectors held by the Pinecone index
  response,    \* what the endpoint answered
  iRaised      \* the exception that left ingest_data, or "none"

ingestVars == <<iText, iPdf, iPc, text, source, document_id, chunks, embeddings,
                vectors, index, response, iRaised>>

\* diabetes_tool.predict_diabetes_tool applied to one argument set
VARIABLES
  pArgs,        \* the arguments execute_tool passes on
  pLabel,       \* model.predict(input_df)[0]
  pProbability, \* model.predict_proba(input_df)[0][1], in units of 1/2000
  pResult,      \* the dict returned, or the exception
  pPc           \* "call" | "done"

predictVars == <<pArgs, pLabel, pProbability, pResult, pPc>>

\* everything but the variables of the single-session specification
notChat == <<connVars, chunkVars, ingestVars, predictVars>>

\* everything but the variables of the several-connections specification
notConn == <<vars, chunkVars, ingestVars, predictVars>>

\* everything but the variables of the chunk_text specification
notChunk == <<vars, connVars, ingestVars, predictVars>>

\* everything but the variables of the ingest_data specification
notIngest == <<vars, connVars, chunkVars, predictVars>>

\* everything but the variables of the predict_diabetes_tool specification
notPredict == <<vars, connVars, chunkVars, ingestVars>>

\* ------------------------------------------------------------ the messages
SystemMessage ==
  [role |-> "system", content |-> "system", tool_calls |-> <<>>, tool_call_id |-> 0]

UserMessage ==
  [role |-> "user", content |-> "user", tool_calls |-> <<>>, tool_call_id |-> 0]

\* A model response: content is null when it carries tool calls.
AssistantMessage(calls) ==
  [role |-> "assistant",
   content |-> IF calls = <<>> THEN "answer" ELSE "null",
   tool_calls |-> calls, tool_call_id |-> 0]

ToolMessageWrongId(call, result) ==
  [role |-> "tool", content |-> result, tool_calls |-> <<>>, tool_call_id |-> 0]

ToolMessage(call, result) ==
  [role |-> "tool", content |-> result, tool_calls |-> <<>>, tool_call_id |-> call.id]

NoMessage == AssistantMessage(<<>>)

AppendMsgWindowed(ms, m) == Append(Tail(ms), m)

AppendMsg(ms, m) == Append(ms, m)

\* ---------------------------------------------------------------- the log
\* e: what happened; t: the turn it belongs to; id: the ToolCall it is about (or 0)
Event(e, t, id) == [ev |-> e, turn |-> t, id |-> id]

FrameKinds == {"announce", "result", "assistant", "agent_event", "task_completed", "error"}

Frames == SelectSeq(log, LAMBDA e : e.ev \in FrameKinds)

\* ------------------------------------------------------------ execute_tool
\* The value execute_tool returns, or the exception it lets through.
\* `works` is whether the tool function and its collaborators succeed.
execute_tool(name, args, works) ==
  IF name \in RegisteredTools
  THEN IF args = "mismatch" THEN [raises |-> "TypeError", value |-> NoResult]
       ELSE IF works THEN [raises |-> "none", value |-> "result"]
       ELSE [raises |-> "ToolException", value |-> NoResult]
  ELSE [raises |-> "none", value |-> "Unknown tool"]

\* ------------------------------------------------------------------- Init
\* the several-connections variables while another specification runs
ConnIdle ==
  /\ mGateway = "raw"
  /\ mPc = <<>>
  /\ mInbox = <<>>
  /\ mSent = <<>>
  /\ mMessages = <<>>
  /\ agentContext = <<>>
  /\ mRequest = <<>>
  /\ loopHolder = 0

\* the chunk_text variables while another specification runs
ChunkIdle ==
  /\ cWords = 0
  /\ cSize = 0
  /\ cOverlap = 0
  /\ cChunks = <<>>
  /\ cPc = "idle"

\* the ingest_data variables while another specification runs
IngestIdle ==
  /\ iText = [kind |-> "none", words |-> 0]
  /\ iPdf = [kind |-> "none", words |-> 0]
  /\ iPc = "idle"
  /\ text = [kind |-> "none", words |-> 0]
  /\ source = "idle"
  /\ document_id = 0
  /\ chunks = <<>>
  /\ embeddings = 0
  /\ vectors = <<>>
  /\ index = <<>>
  /\ response = [status |-> "none", document_id |-> 0, chunks_stored |-> 0, source |-> "none"]
  /\ iRaised = "none"

\* the predict_diabetes_tool variables while another specification runs
PredictIdle ==
  /\ pArgs = [pregnancies |-> 0, glucose |-> 0, age |-> 0]
  /\ pLabel = 0
  /\ pProbability = 0
  /\ pResult = [prediction |-> 0, diabetes |-> "none", probability |-> 0]
  /\ pPc = "idle"

Init ==
  /\ gateway \in {"raw", "agent"}
  /\ pc = "recv"
  /\ connected = TRUE
  /\ inbox = <<>>
  /\ sent = 0
  /\ messages = IF gateway = "raw" THEN <<SystemMessage>> ELSE <<>>
  /\ snapshot = <<>>
  /\ message = NoMessage
  /\ idx = 0
  /\ tool_result = NoResult
  /\ nextId = 0
  /\ turn = 0
  /\ roundTrips = 0
  /\ streamed = 0
  /\ raised = "none"
  /\ log = <<>>
  /\ ConnIdle
  /\ ChunkIdle
  /\ IngestIdle
  /\ PredictIdle

\* ------------------------------------------------------------- the client
ClientSend ==
  /\ connected
  /\ sent < MaxTurns
  /\ \E k \in InboundKinds : inbox' = Append(inbox, k)
  /\ sent' = sent + 1
  /\ UNCHANGED <<gateway, pc, connected, messages, snapshot, message, idx,
                 tool_result, nextId, turn, roundTrips, streamed, raised, log>>
  /\ UNCHANGED notChat

ClientDisconnect ==
  /\ connected
  /\ connected' = FALSE
  /\ UNCHANGED <<gateway, pc, inbox, sent, messages, snapshot, message, idx,
                 tool_result, nextId, turn, roundTrips, streamed, raised, log>>
  /\ UNCHANGED notChat

\* The handler ends: `exc` is the exception that left the while loop.
Ended(exc) ==
  /\ pc' = "ended"
  /\ raised' = exc

\* ------------------------------------------------- app.py: the raw gateway
\* where the for loop over message.tool_calls goes after call i of n
AfterCallContinueInsideFor(i, n) == "infer"

AfterCallBreak(i, n) == IF i < n THEN "announce" ELSE "recv"

AfterCall(i, n) == IF i < n THEN "announce" ELSE "infer"

\* every response taken for the final answer
AfterInferAlwaysFinal(calls) == "send_final"

\* if message.tool_calls: the for loop over the calls; otherwise the final
\* assistant message
AfterInfer(calls) == IF calls # <<>> THEN "announce" ELSE "send_final"

\* what SendResult makes observable for one call, in order
ResultEventsAppendFirst(t, id) == <<Event("toolmsg", t, id), Event("result", t, id)>>

ResultEvents(t, id) == <<Event("result", t, id), Event("toolmsg", t, id)>>

\* user_data = await websocket.receive_json(); user_message = user_data["content"];
\* messages.append(...)
Receive ==
  /\ gateway = "raw"
  /\ pc = "recv"
  /\ IF inbox # <<>>
     THEN /\ inbox' = Tail(inbox)
          /\ turn' = turn + 1
          /\ roundTrips' = 0
          /\ IF Head(inbox) = "nocontent"
             THEN /\ Ended("KeyError")
                  /\ log' = Append(log, Event("recv", turn + 1, 0))
                  /\ UNCHANGED messages
             ELSE /\ messages' = AppendMsg(messages, UserMessage)
                  /\ log' = Append(log, Event("recv", turn + 1, 0))
                  /\ pc' = "infer"
                  /\ UNCHANGED raised
     ELSE /\ ~connected
          /\ Ended("WebSocketDisconnect")
          /\ UNCHANGED <<inbox, turn, roundTrips, messages, log>>
  /\ UNCHANGED <<gateway, connected, sent, snapshot, message, idx, tool_result,
                 nextId, streamed>>
  /\ UNCHANGED notChat

\* response = client.chat.completions.create(messages=messages, ...), and the
\* append of the response that follows it on either branch
Infer ==
  /\ gateway = "raw"
  /\ pc = "infer"
  /\ snapshot' = messages
  /\ \/ \* the provider fails (rate limit, auth, timeout)
        /\ Ended("ProviderError")
        /\ log' = Append(log, Event("infer", turn, 0))
        /\ UNCHANGED <<messages, message, idx, nextId, roundTrips>>
     \/ \* no tool calls: the final assistant message
        /\ message' = AssistantMessage(<<>>)
        /\ messages' = AppendMsg(messages, message')
        /\ log' = Append(log, Event("infer", turn, 0))
        /\ pc' = AfterInfer(message'.tool_calls)
        /\ UNCHANGED <<idx, nextId, roundTrips, raised>>
     \/ \* one or more tool calls
        \E n \in 1..MaxBatch : \E names \in [1..n -> ToolNames] :
          /\ Len(messages) + 1 + n <= MaxMsgs
          /\ message' = AssistantMessage(
                           [i \in 1..n |-> [id |-> nextId + i, name |-> names[i]]])
          /\ nextId' = nextId + n
          /\ messages' = AppendMsg(messages, message')
          /\ log' = Append(log, Event("infer", turn, 0))
          /\ roundTrips' = roundTrips + 1
          /\ idx' = 1
          /\ pc' = AfterInfer(message'.tool_calls)
          /\ UNCHANGED raised
  /\ UNCHANGED <<gateway, connected, inbox, sent, tool_result, turn, streamed>>
  /\ UNCHANGED notChat

\* await send({"role": "Thoughts", "content": "Executing tool: ..."})
Announce ==
  /\ gateway = "raw"
  /\ pc = "announce"
  /\ IF connected
     THEN /\ log' = Append(log, Event("announce", turn, message.tool_calls[idx].id))
          /\ pc' = "dispatch"
          /\ UNCHANGED raised
     ELSE /\ Ended("WebSocketDisconnect")
          /\ UNCHANGED log
  /\ UNCHANGED <<gateway, connected, inbox, sent, messages, snapshot, message, idx,
                 tool_result, nextId, turn, roundTrips, streamed>>
  /\ UNCHANGED notChat

\* tool_args = json.loads(tool_call.function.arguments);
\* tool_result = execute_tool(tool_name, tool_args)
Dispatch ==
  /\ gateway = "raw"
  /\ pc = "dispatch"
  /\ \E args \in ArgKinds : \E works \in BOOLEAN :
       LET call == message.tool_calls[idx]
           r == execute_tool(call.name, args, works)
       IN IF args = "malformed"
          THEN /\ Ended("JSONDecodeError")
               /\ UNCHANGED <<log, tool_result>>
          ELSE /\ log' = Append(log, Event("dispatch", turn, call.id))
               /\ IF r.raises # "none"
                  THEN /\ Ended(r.raises)
                       /\ UNCHANGED tool_result
                  ELSE /\ tool_result' = r.value
                       /\ pc' = "send_result"
                       /\ UNCHANGED raised
  /\ UNCHANGED <<gateway, connected, inbox, sent, messages, snapshot, message, idx,
                 nextId, turn, roundTrips, streamed>>
  /\ UNCHANGED notChat

\* await send({"role": "Thoughts", "content": "Got result from ..."});
\* messages.append({"role": "tool", ...}); then the next call, or `continue`
SendResult ==
  /\ gateway = "raw"
  /\ pc = "send_result"
  /\ IF connected
     THEN LET call == message.tool_calls[idx]
          IN /\ log' = log \o ResultEvents(turn, call.id)
             /\ messages' = AppendMsg(messages, ToolMessage(call, tool_result))
             /\ pc' = AfterCall(idx, Len(message.tool_calls))
             /\ idx' = idx + 1
             /\ UNCHANGED raised
     ELSE /\ Ended("WebSocketDisconnect")
          /\ UNCHANGED <<log, messages, idx>>
  /\ UNCHANGED <<gateway, connected, inbox, sent, snapshot, message, tool_result,
                 nextId, turn, roundTrips, streamed>>
  /\ UNCHANGED notChat

\* await send({"role": "assistant", "content": message.content}); break
SendFinal ==
  /\ gateway = "raw"
  /\ pc = "send_final"
  /\ IF connected
     THEN /\ log' = Append(log, Event("assistant", turn, 0))
          /\ pc' = "recv"
          /\ UNCHANGED raised
     ELSE /\ Ended("WebSocketDisconnect")
          /\ UNCHANGED log
  /\ UNCHANGED <<gateway, connected, inbox, sent, messages, snapshot, message, idx,
                 tool_result, nextId, turn, roundTrips, streamed>>
  /\ UNCHANGED notChat

\* ----------------------------------------------- app1.py: the agent gateway
\* the frame of the `except Exception` handler; its own failure is swallowed
ErrorFrame(t) == IF connected THEN <<Event("error", t, 0)>> ELSE <<>>

\* data = await websocket.receive_json(); user_msg = TextMessage.model_validate(data)
ReceiveAgent ==
  /\ gateway = "agent"
  /\ pc = "recv"
  /\ IF inbox # <<>>
     THEN /\ inbox' = Tail(inbox)
          /\ turn' = turn + 1
          /\ streamed' = 0
          /\ IF Head(inbox) = "nocontent"
             THEN /\ Ended("ValidationError")
                  /\ log' = Append(log, Event("recv", turn + 1, 0)) \o ErrorFrame(turn + 1)
             ELSE /\ log' = Append(log, Event("recv", turn + 1, 0))
                  /\ pc' = "stream"
                  /\ UNCHANGED raised
     ELSE /\ ~connected
          /\ Ended("WebSocketDisconnect")
          /\ UNCHANGED <<inbox, turn, streamed, log>>
  /\ UNCHANGED <<gateway, connected, sent, messages, snapshot, message, idx,
                 tool_result, nextId, roundTrips>>
  /\ UNCHANGED notChat

\* async for message in assistant.run_stream(...): await send_json_datetime(...)
StreamYield ==
  /\ gateway = "agent"
  /\ pc = "stream"
  /\ streamed < MaxStream
  /\ IF connected
     THEN /\ log' = Append(log, Event("agent_event", turn, 0))
          /\ streamed' = streamed + 1
          /\ UNCHANGED <<pc, raised>>
     ELSE /\ Ended("WebSocketDisconnect")
          /\ UNCHANGED <<log, streamed>>
  /\ UNCHANGED <<gateway, connected, inbox, sent, messages, snapshot, message, idx,
                 tool_result, nextId, turn, roundTrips>>
  /\ UNCHANGED notChat

\* run_stream raises (model provider, tool): except Exception sends the error frame
StreamRaise ==
  /\ gateway = "agent"
  /\ pc = "stream"
  /\ Ended("AgentException")
  /\ log' = log \o ErrorFrame(turn)
  /\ UNCHANGED <<gateway, connected, inbox, sent, messages, snapshot, message, idx,
                 tool_result, nextId, turn, roundTrips, streamed>>
  /\ UNCHANGED notChat

\* the stream is exhausted: the task_completed frame, then the next receive
StreamEnd ==
  /\ gateway = "agent"
  /\ pc = "stream"
  /\ streamed >= 1
  /\ IF connected
     THEN /\ log' = Append(log, Event("task_completed", turn, 0))
          /\ pc' = "recv"
          /\ UNCHANGED raised
     ELSE /\ Ended("WebSocketDisconnect")
          /\ UNCHANGED log
  /\ UNCHANGED <<gateway, connected, inbox, sent, messages, snapshot, message, idx,
                 tool_result, nextId, turn, roundTrips, streamed>>
  /\ UNCHANGED notChat

\* ------------------------------------------------------------------- Next
Next ==
  \/ ClientSend
  \/ ClientDisconnect
  \/ Receive
  \/ Infer
  \/ Announce
  \/ Dispatch
  \/ SendResult
  \/ SendFinal
  \/ ReceiveAgent
  \/ StreamYield
  \/ StreamRaise
  \/ StreamEnd

Spec == Init /\ [][Next]_vars

\* the single-session variables while another specification runs
ChatIdle ==
  /\ gateway = "raw"
  /\ pc = "ended"
  /\ connected = FALSE
  /\ inbox = <<>>
  /\ sent = 0
  /\ messages = <<>>
  /\ snapshot = <<>>
  /\ message = NoMessage
  /\ idx = 0
  /\ tool_result = NoResult
  /\ nextId = 0
  /\ turn = 0
  /\ roundTrips = 0
  /\ streamed = 0
  /\ raised = "none"
  /\ log = <<>>

\* ============================================ several connections, one process
\* uvicorn runs every chat_ws handler as a task of one event loop. A handler
\* gives the loop up only at an `await`; inside a synchronous call it holds it.
\* Messages carry `owner`: the connection whose turn produced them (0: the
\* system message).

\* connections open at the same time
NumConnections == 2
\* user messages each client sends
MaxConnTurns == 2
\* length of a transcript (or of the agent's context) up to which tools are requested
MaxConnMsgs == 5

Connections == 1..NumConnections

Msg(r, o) == [role |-> r, owner |-> o]

\* app.py: `messages` is created inside chat_ws, once per connection
NewTranscript == <<Msg("system", 0)>>

\* app1.py: run_stream(task=...) adds the task to the context of the agent it is
\* called on; `assistant` is one module-level object
AddTask(ctx, s) == Append(ctx, Msg("user", s))

\* what an app1.py inference is given: the agent's system message and its context
AgentRequest(ctx) == <<Msg("system", 0)>> \o ctx

\* whether client.chat.completions.create / execute_tool keep the event loop:
\* both are plain (not awaited) calls of synchronous functions
HoldsLoop(s) == s

ConnInit ==
  /\ mGateway \in {"raw", "agent"}
  /\ mPc = [s \in Connections |-> "recv"]
  /\ mInbox = [s \in Connections |-> 0]
  /\ mSent = [s \in Connections |-> 0]
  /\ mMessages = [s \in Connections |-> IF mGateway = "raw" THEN NewTranscript ELSE <<>>]
  /\ agentContext = <<>>
  /\ mRequest = [s \in Connections |-> <<>>]
  /\ loopHolder = 0
  /\ ChatIdle
  /\ ChunkIdle
  /\ IngestIdle
  /\ PredictIdle

\* a client sends a user message; it waits in the connection's receive queue
ConnClientSend(s) ==
  /\ mSent[s] < MaxConnTurns
  /\ mSent' = [mSent EXCEPT ![s] = @ + 1]
  /\ mInbox' = [mInbox EXCEPT ![s] = @ + 1]
  /\ UNCHANGED <<mGateway, mPc, mMessages, agentContext, mRequest, loopHolder>>
  /\ UNCHANGED notConn

\* app.py: await websocket.receive_json() resumes; messages.append(user)
ConnReceive(s) ==
  /\ mGateway = "raw"
  /\ loopHolder = 0
  /\ mPc[s] = "recv"
  /\ mInbox[s] > 0
  /\ mInbox' = [mInbox EXCEPT ![s] = @ - 1]
  /\ mMessages' = [mMessages EXCEPT ![s] = Append(@, Msg("user", s))]
  /\ mPc' = [mPc EXCEPT ![s] = "infer"]
  /\ UNCHANGED <<mGateway, mSent, agentContext, mRequest, loopHolder>>
  /\ UNCHANGED notConn

\* app.py: client.chat.completions.create(messages=messages, ...) is entered
ConnInferCall(s) ==
  /\ mGateway = "raw"
  /\ loopHolder = 0
  /\ mPc[s] = "infer"
  /\ mRequest' = [mRequest EXCEPT ![s] = mMessages[s]]
  /\ loopHolder' = HoldsLoop(s)
  /\ mPc' = [mPc EXCEPT ![s] = "awaiting_model"]
  /\ UNCHANGED <<mGateway, mInbox, mSent, mMessages, agentContext>>
  /\ UNCHANGED notConn

\* app.py: the response arrives; messages.append(message) on either branch
ConnInferReturn(s) ==
  /\ mGateway = "raw"
  /\ loopHolder \in {0, s}
  /\ mPc[s] = "awaiting_model"
  /\ loopHolder' = 0
  /\ mMessages' = [mMessages EXCEPT ![s] = Append(@, Msg("assistant", s))]
  /\ \E calls \in BOOLEAN :
       /\ calls => Len(mMessages[s]) + 2 <= MaxConnMsgs
       /\ mPc' = [mPc EXCEPT ![s] = IF calls THEN "announce" ELSE "send_final"]
  /\ UNCHANGED <<mGateway, mInbox, mSent, agentContext, mRequest>>
  /\ UNCHANGED notConn

\* app.py: await send(announcing thought)
ConnAnnounce(s) ==
  /\ mGateway = "raw"
  /\ loopHolder = 0
  /\ mPc[s] = "announce"
  /\ mPc' = [mPc EXCEPT ![s] = "dispatch"]
  /\ UNCHANGED <<mGateway, mInbox, mSent, mMessages, agentContext, mRequest, loopHolder>>
  /\ UNCHANGED notConn

\* app.py: execute_tool(tool_name, tool_args) is entered (embedding request,
\* index query, model.predict)
ConnToolCall(s) ==
  /\ mGateway = "raw"
  /\ loopHolder = 0
  /\ mPc[s] = "dispatch"
  /\ loopHolder' = HoldsLoop(s)
  /\ mPc' = [mPc EXCEPT ![s] = "awaiting_tool"]
  /\ UNCHANGED <<mGateway, mInbox, mSent, mMessages, agentContext, mRequest>>
  /\ UNCHANGED notConn

\* app.py: execute_tool returns; await send(result thought)
ConnToolReturn(s) ==
  /\ mGateway = "raw"
  /\ loopHolder \in {0, s}
  /\ mPc[s] = "awaiting_tool"
  /\ loopHolder' = 0
  /\ mPc' = [mPc EXCEPT ![s] = "send_result"]
  /\ UNCHANGED <<mGateway, mInbox, mSent, mMessages, agentContext, mRequest>>
  /\ UNCHANGED notConn

\* app.py: the send resumes; messages.append(tool message); continue
ConnSendResult(s) ==
  /\ mGateway = "raw"
  /\ loopHolder = 0
  /\ mPc[s] = "send_result"
  /\ mMessages' = [mMessages EXCEPT ![s] = Append(@, Msg("tool", s))]
  /\ mPc' = [mPc EXCEPT ![s] = "infer"]
  /\ UNCHANGED <<mGateway, mInbox, mSent, agentContext, mRequest, loopHolder>>
  /\ UNCHANGED notConn

\* app.py: await send(assistant frame); break
ConnSendFinal(s) ==
  /\ mGateway = "raw"
  /\ loopHolder = 0
  /\ mPc[s] = "send_final"
  /\ mPc' = [mPc EXCEPT ![s] = "recv"]
  /\ UNCHANGED <<mGateway, mInbox, mSent, mMessages, agentContext, mRequest, loopHolder>>
  /\ UNCHANGED notConn

\* app1.py: await websocket.receive_json() resumes; TextMessage.model_validate
ConnReceiveAgent(s) ==
  /\ mGateway = "agent"
  /\ loopHolder = 0
  /\ mPc[s] = "recv"
  /\ mInbox[s] > 0
  /\ mInbox' = [mInbox EXCEPT ![s] = @ - 1]
  /\ mPc' = [mPc EXCEPT ![s] = "run_stream"]
  /\ UNCHANGED <<mGateway, mSent, mMessages, agentContext, mRequest, loopHolder>>
  /\ UNCHANGED notConn

\* app1.py: assistant.run_stream(task=user_msg.content): the task joins the
\* agent's context, which is passed to the model (an awaited call)
ConnRunStream(s) ==
  /\ mGateway = "agent"
  /\ loopHolder = 0
  /\ mPc[s] = "run_stream"
  /\ agentContext' = AddTask(agentContext, s)
  /\ mRequest' = [mRequest EXCEPT ![s] = AgentRequest(agentContext')]
  /\ mPc' = [mPc EXCEPT ![s] = "awaiting_model"]
  /\ UNCHANGED <<mGateway, mInbox, mSent, mMessages, loopHolder>>
  /\ UNCHANGED notConn

\* app1.py: the response joins the agent's context; the stream's messages and
\* the task_completed frame are sent
ConnStreamDone(s) ==
  /\ mGateway = "agent"
  /\ loopHolder = 0
  /\ mPc[s] = "awaiting_model"
  /\ agentContext' = Append(agentContext, Msg("assistant", s))
  /\ mPc' = [mPc EXCEPT ![s] = "recv"]
  /\ UNCHANGED <<mGateway, mInbox, mSent, mMessages, mRequest, loopHolder>>
  /\ UNCHANGED notConn

ConnNext ==
  \E s \in Connections :
    \/ ConnClientSend(s)
    \/ ConnReceive(s)
    \/ ConnInferCall(s)
    \/ ConnInferReturn(s)
    \/ ConnAnnounce(s)
    \/ ConnToolCall(s)
    \/ ConnToolReturn(s)
    \/ ConnSendResult(s)
    \/ ConnSendFinal(s)
    \/ ConnReceiveAgent(s)
    \/ ConnRunStream(s)
    \/ ConnStreamDone(s)

SpecConnections == ConnInit /\ [][ConnNext]_connVars

\* ================================================================ chunk_text
\* words a text may have
MaxWords == 9
\* largest chunk_size tried
MaxChunkSize == 4

\* chunk_size: int = 500, overlap: int = 100
DefaultChunkSize == 500

DefaultOverlap == 100

\* word counts tried with the default window
DefaultCaseWords == {0, 1, 400, 401, 500, 501, 900, 1200, 1201}

Min(a, b) == IF a <= b THEN a ELSE b

Max(a, b) == IF a >= b THEN a ELSE b

\* words[start:end] of a list of n words: the words numbered lo .. hi - 1
Slice(n, start, end) == [lo |-> Min(start, n), hi |-> Min(end, n)]

\* while start < len(words)
ContinuesInclusive(start, n) == start <= n

Continues(start, n) == start < n

\* start += chunk_size - overlap
Advance(start, chunk_size, overlap) == start + (chunk_size - overlap)

RECURSIVE ChunkLoop(_, _, _, _, _)
ChunkLoop(n, chunk_size, overlap, start, acc) ==
  IF Continues(start, n)
  THEN ChunkLoop(n, chunk_size, overlap, Advance(start, chunk_size, overlap),
                 Append(acc, Slice(n, start, start + chunk_size)))
  ELSE acc

\* chunk_text(text, chunk_size, overlap), n = len(text.split())
chunk_text(n, chunk_size, overlap) == ChunkLoop(n, chunk_size, overlap, 0, <<>>)

ChunkInit ==
  /\ \/ /\ cWords \in 0..MaxWords
        /\ cSize \in 1..MaxChunkSize
        /\ cOverlap \in 0..(cSize - 1)
     \/ /\ cWords \in DefaultCaseWords
        /\ cSize = DefaultChunkSize
        /\ cOverlap = DefaultOverlap
  /\ cChunks = <<>>
  /\ cPc = "call"
  /\ ChatIdle
  /\ ConnIdle
  /\ IngestIdle
  /\ PredictIdle

ChunkText ==
  /\ cPc = "call"
  /\ cChunks' = chunk_text(cWords, cSize, cOverlap)
  /\ cPc' = "done"
  /\ UNCHANGED <<cWords, cSize, cOverlap>>
  /\ UNCHANGED notChunk

ChunkNext == ChunkText

SpecChunk == ChunkInit /\ [][ChunkNext]_chunkVars

\* =============================================================== ingest_data
\* characters of one word of an ingested text
WordChars == 4

\* chunk[:500]
PreviewChars == 500

\* word counts of the `text` field tried
TextSizes == {0, 1, 450, 500, 1200}

\* word counts of the text extracted from the `pdf` field tried
PdfSizes == {0, 900}

NoField == [kind |-> "none", words |-> 0]

\* text: str = Form(None): absent, the empty string, or a string of `words` words
TextFields ==
  {NoField, [kind |-> "empty", words |-> 0]} \cup {[kind |-> "str", words |-> n] : n \in TextSizes}

\* pdf: UploadFile = File(None): absent, a file pypdf cannot read, or a PDF
\* whose pages hold `words` words
PdfFields ==
  {NoField, [kind |-> "corrupt", words |-> 0]} \cup {[kind |-> "pdf", words |-> n] : n \in PdfSizes}

\* Python truth of the two fields
TextGiven(t) == t.kind = "str"

PdfGiven(f) == f.kind # "none"

\* len(" ".join(words[lo:hi]))
ChunkChars(c) ==
  IF c.hi = c.lo THEN 0 ELSE (c.hi - c.lo) * WordChars + (c.hi - c.lo - 1)

\* chunk[:500]: the characters of the chunk's text that are kept
StoredText(origin, c) ==
  [origin |-> origin, lo |-> c.lo, chars |-> Min(PreviewChars, ChunkChars(c))]

\* one entry of `vectors`
Vector(doc, i, total, src, origin, c) ==
  [document_id |-> doc, chunk_index |-> i, total_chunks |-> total, source |-> src,
   text |-> StoredText(origin, c)]

\* enumerate(zip(chunks, embeddings)): as many entries as the shorter of the two
BuildVectors(doc, src, origin, cs, nEmbeddings) ==
  [i \in 1..Min(Len(cs), nEmbeddings) |-> Vector(doc, i - 1, Len(cs), src, origin, cs[i])]

\* str(uuid.uuid4()): an id no stored vector carries
NewDocumentId(stored) ==
  1 + (IF stored = <<>> THEN 0
       ELSE CHOOSE m \in {stored[k].document_id : k \in DOMAIN stored} :
              \A k \in DOMAIN stored : stored[k].document_id <= m)

NoResponse == [status |-> "none", document_id |-> 0, chunks_stored |-> 0, source |-> "none"]

\* {"error": "Provide either text or PDF"}
ErrorResponse == [NoResponse EXCEPT !.status = "error"]

\* an exception leaves ingest_data: the framework answers 500 Internal Server Error
UnhandledResponse == [NoResponse EXCEPT !.status = "http500"]

\* a document ingested earlier
OldVector == Vector(1, 0, 1, "text", "old", [lo |-> 0, hi |-> 1])

IngestInit ==
  /\ iText \in TextFields
  /\ iPdf \in PdfFields
  /\ index \in {<<>>, <<OldVector>>}
  /\ iPc = "check"
  /\ text = NoField
  /\ source = "none"
  /\ document_id = 0
  /\ chunks = <<>>
  /\ embeddings = 0
  /\ vectors = <<>>
  /\ response = NoResponse
  /\ iRaised = "none"
  /\ ChatIdle
  /\ ConnIdle
  /\ ChunkIdle
  /\ PredictIdle

\* an exception leaves the handler
IngestRaise(exc) ==
  /\ iRaised' = exc
  /\ response' = UnhandledResponse
  /\ iPc' = "done"

\* if not text and not pdf: return error; document_id, source; if pdf: extract
IngestCheck ==
  /\ iPc = "check"
  /\ IF ~TextGiven(iText) /\ ~PdfGiven(iPdf)
     THEN /\ response' = ErrorResponse
          /\ iPc' = "done"
          /\ UNCHANGED <<text, source, document_id, iRaised>>
     ELSE /\ document_id' = NewDocumentId(index)
          /\ IF PdfGiven(iPdf)
             THEN /\ source' = "pdf"
                  /\ IF iPdf.kind = "corrupt"
                     THEN /\ IngestRaise("PdfReadError")
                          /\ UNCHANGED text
                     ELSE /\ text' = [kind |-> "pdf", words |-> iPdf.words]
                          /\ iPc' = "embed"
                          /\ UNCHANGED <<response, iRaised>>
             ELSE /\ source' = "text"
                  /\ text' = [kind |-> "text", words |-> iText.words]
                  /\ iPc' = "embed"
                  /\ UNCHANGED <<response, iRaised>>
  /\ UNCHANGED <<iText, iPdf, chunks, embeddings, vectors, index>>
  /\ UNCHANGED notIngest

\* chunks = chunk_text(text); embeddings = embed_texts_jina(chunks)
IngestEmbed ==
  /\ iPc = "embed"
  /\ chunks' = chunk_text(text.words, DefaultChunkSize, DefaultOverlap)
  /\ \/ \* the request fails, or raise_for_status raises
        /\ IngestRaise("HTTPError")
        /\ UNCHANGED embeddings
     \/ \* the service answers with some number of embeddings
        \E n \in {Len(chunks') - 1, Len(chunks'), Len(chunks') + 1} \cap Nat :
          /\ embeddings' = n
          /\ iPc' = "upsert"
          /\ UNCHANGED <<response, iRaised>>
  /\ UNCHANGED <<iText, iPdf, text, source, document_id, vectors, index>>
  /\ UNCHANGED notIngest

\* the loop building `vectors`; index.upsert(vectors); the success response
IngestUpsert ==
  /\ iPc = "upsert"
  /\ vectors' = BuildVectors(document_id, source, text.kind, chunks, embeddings)
  /\ \/ \* the index rejects the request or cannot be reached
        /\ IngestRaise("PineconeException")
        /\ UNCHANGED index
     \/ /\ index' = index \o vectors'
        /\ response' = [status |-> "success", document_id |-> document_id,
                         chunks_stored |-> Len(chunks), source |-> source]
        /\ iPc' = "done"
        /\ UNCHANGED iRaised
  /\ UNCHANGED <<iText, iPdf, text, source, document_id, chunks, embeddings>>
  /\ UNCHANGED notIngest

\* retrieve_documents_tool: the entry returned for one match
RetrievedEntry(v) ==
  [document_id |-> v.document_id, chunk_index |-> v.chunk_index,
   text |-> v.text, source |-> v.source]

IngestNext ==
  \/ IngestCheck
  \/ IngestEmbed
  \/ IngestUpsert

SpecIngest == IngestInit /\ [][IngestNext]_ingestVars

\* ===================================================== predict_diabetes_tool
\* The classifier is opaque: for an argument set it yields some label and some
\* probability of class 1.  A probability is a whole number of steps of
\* 1/ProbSteps; the value returned is a whole number of 10^-RoundDigits.

\* the number of steps the probabilities 0..1 are divided into
ProbSteps == 2000

\* round(float(probability), 3)
RoundDigits == 3

Scale == 10 ^ RoundDigits

\* the labels a binary classifier yields
Labels == {0, 1}

\* argument sets matching the schema of predict_diabetes (the fields that
\* are integers in the schema and one of the float fields)
PredictArgs == [pregnancies : {0, 2}, glucose : {85, 148}, age : {21, 50}]

\* round(x, 3): the nearest multiple of 10^-3; a float exactly half-way
\* between two multiples does not exist in binary, so such a value goes to
\* either neighbour, depending on its stored binary expansion
Round(p) ==
  LET lo  == (p * Scale) \div ProbSteps
      rem == (p * Scale) % ProbSteps
  IN  IF rem = 0 THEN {lo}
      ELSE IF 2 * rem < ProbSteps THEN {lo}
      ELSE IF 2 * rem > ProbSteps THEN {lo + 1}
      ELSE {lo, lo + 1}

\* the label reversed
DiabetesFlipped(prediction) == IF prediction = 1 THEN "No" ELSE "Yes"

\* "Yes" if prediction == 1 else "No"
Diabetes(prediction) == IF prediction = 1 THEN "Yes" ELSE "No"

PredictInit ==
  /\ pArgs \in PredictArgs
  /\ pLabel = 0
  /\ pProbability = 0
  /\ pResult = [prediction |-> 0, diabetes |-> "none", probability |-> 0]
  /\ pPc = "call"
  /\ ChatIdle
  /\ ConnIdle
  /\ ChunkIdle
  /\ IngestIdle

\* model.predict(input_df)[0] and model.predict_proba(input_df)[0][1]
PredictModel ==
  /\ pPc = "call"
  /\ pLabel' \in Labels
  /\ pProbability' \in 0..ProbSteps
  /\ pPc' = "return"
  /\ UNCHANGED <<pArgs, pResult>>
  /\ UNCHANGED notPredict

\* the dictionary returned
PredictReturn ==
  /\ pPc = "return"
  /\ \E r \in Round(pProbability) :
       pResult' = [prediction |-> pLabel, diabetes |-> Diabetes(pLabel),
                   probability |-> r]
  /\ pPc' = "done"
  /\ UNCHANGED <<pArgs, pLabel, pProbability>>
  /\ UNCHANGED notPredict

PredictNext ==
  \/ PredictModel
  \/ PredictReturn

SpecPredict == PredictInit /\ [][PredictNext]_predictVars

\* ================================================================ claims

IsPrefix(a, b) == Len(a) <= Len(b) /\ SubSeq(b, 1, Len(a)) = a

Last(q) == q[Len(q)]

\* the assistant messages of a transcript that carry tool calls
Batches(ms) == {i \in DOMAIN ms : ms[i].role = "assistant" /\ ms[i].tool_calls # <<>>}

BatchIds(m) == {m.tool_calls[k].id : k \in DOMAIN m.tool_calls}

\* the exceptions of a tool call: decoding its arguments, applying them, running it
ToolErrors == {"JSONDecodeError", "TypeError", "ToolException"}

\* ---- C1
\* C1: in every turn the tool-calling loop makes at most the configured number
\* of model/tool round-trips (and then fails the turn with ToolLoopExceededError).
\* The loop of app.py has no bound: a model that keeps asking for tools refutes it.
C1_LoopWithinBound == roundTrips <= RoundTripBound

\* ---- C2
\* the frames of the current turn
TurnFrames == SelectSeq(Frames, LAMBDA e : e.turn = turn)

\* the exceptions of an inbound frame that is no user message
InboundErrors == {"KeyError", "ValidationError"}

\* the turn of a user message is over: the handler awaits the next message, or
\* has ended on an exception of the turn; the client is still there
TurnOver ==
  /\ turn > 0
  /\ connected
  /\ \/ pc = "recv"
     \/ pc = "ended" /\ raised \notin InboundErrors \cup {"WebSocketDisconnect"}

TerminalFrame(fs) ==
  /\ fs # <<>>
  /\ \/ Last(fs).ev = "error"
     \/ /\ Last(fs).ev = "task_completed"
        /\ Len(fs) >= 2
        /\ fs[Len(fs) - 1].ev \in {"assistant", "agent_event"}

\* C2: once a turn is over, the client (still connected) has received its
\* terminal frame: the answer followed by task_completed, or an error frame.
C2_TerminalFrame == TurnOver => TerminalFrame(TurnFrames)

\* ---- C3
\* C3: a turn that failed with a tool error has produced an error frame and the
\* handler is still running, ready to receive the next message.
C3_SessionSurvives ==
  (raised \in ToolErrors /\ connected) =>
     /\ pc # "ended"
     /\ TurnFrames # <<>>
     /\ Last(TurnFrames).ev = "error"

\* ---- C4
\* the message before the run of tool messages that position i belongs to
BatchHead(ms, i) ==
  CHOOSE p \in 0..(i - 1) :
    /\ p = 0 \/ ms[p].role # "tool"
    /\ \A q \in (p + 1)..(i - 1) : ms[q].role = "tool"

AnswersOneCallOfHead(ms, i) ==
  LET p == BatchHead(ms, i)
  IN /\ p > 0
     /\ ms[p].role = "assistant"
     /\ Cardinality({k \in DOMAIN ms[p].tool_calls :
                       ms[p].tool_calls[k].id = ms[i].tool_call_id}) = 1

\* C4: every tool message's tool_call_id is the id of exactly one ToolCall of
\* the assistant message right before the run of tool messages it is in.
C4_ReferentialIntegrity ==
  \A i \in DOMAIN messages :
    messages[i].role = "tool" => AnswersOneCallOfHead(messages, i)

C4_Witness ==
  \E i \in DOMAIN messages :
    /\ i + 2 <= Len(messages)
    /\ Len(messages[i].tool_calls) = 2
    /\ messages[i + 1].role = "tool"
    /\ messages[i + 2].role = "tool"

\* ---- C5
Answers(ms, id) == {i \in DOMAIN ms : ms[i].role = "tool" /\ ms[i].tool_call_id = id}

\* C5: in the transcript passed to an inference, every ToolCall of every
\* assistant message is answered by exactly one tool message.
C5_AllCallsAnswered ==
  \A p \in Batches(snapshot) :
    \A id \in BatchIds(snapshot[p]) : Cardinality(Answers(snapshot, id)) = 1

C5_Witness ==
  \E p \in Batches(snapshot) :
    /\ Len(snapshot[p].tool_calls) = 2
    /\ Batches(snapshot) # {p}

\* ---- C6
\* C6: no ordinary result is returned for an unregistered tool name, and none
\* is written into the transcript. execute_tool returns "Unknown tool".
C6_UnknownToolFails ==
  /\ tool_result # "Unknown tool"
  /\ \A i \in DOMAIN messages :
       messages[i].role = "tool" => messages[i].content # "Unknown tool"

\* ---- C7
\* C7: no exception of a tool call (its function, or decoding or applying its
\* arguments) leaves the tool-calling loop raw.
C7_NoRawToolException == ~(gateway = "raw" /\ raised \in ToolErrors)

\* ---- C8
StepOfCall == <<"announce", "dispatch", "result", "toolmsg">>

\* what one batch makes observable, in order
Expected(m) ==
  [j \in 1..(4 * Len(m.tool_calls)) |->
     [ev |-> StepOfCall[((j - 1) % 4) + 1],
      id |-> m.tool_calls[((j - 1) \div 4) + 1].id]]

\* the events of batch m among the first n of the log
Observed(m, n) == SelectSeq(SubSeq(log, 1, n), LAMBDA e : e.id \in BatchIds(m))

\* how many they are
NumObserved(m, n) == Cardinality({i \in 1..n : log[i].id \in BatchIds(m)})

InBatchOrder(m) ==
  LET obs == Observed(m, Len(log))
      exp == Expected(m)
  IN /\ Len(obs) <= Len(exp)
     /\ \A j \in DOMAIN obs : obs[j].ev = exp[j].ev /\ obs[j].id = exp[j].id

InferenceAfterBatch(m) ==
  \A j \in DOMAIN log :
    log[j].ev = "infer" => NumObserved(m, j - 1) \in {0, 4 * Len(m.tool_calls)}

\* C8: the calls of a batch run one at a time in the model's order, each as
\* announce frame, dispatch, result frame, tool message; the next inference
\* comes only after the whole batch.
C8_SequentialBatch ==
  \A p \in Batches(messages) :
    InBatchOrder(messages[p]) /\ InferenceAfterBatch(messages[p])

C8_Witness ==
  \E p \in Batches(messages) :
    /\ Len(messages[p].tool_calls) = 2
    /\ Len(Observed(messages[p], Len(log))) = 8
    /\ Last(log).ev = "infer"

\* ---- C9
\* C9: a message is received only at the start of the session or right after
\* the previous turn's last frame (the answer; task_completed in app1.py), and
\* the events of the turns do not interleave.
C9_TurnsSequential ==
  /\ \A j \in DOMAIN log :
       (log[j].ev = "recv" /\ j > 1) =>
          /\ log[j - 1].ev \in {"assistant", "task_completed"}
          /\ log[j - 1].turn = log[j].turn - 1
  /\ \A j \in 2..Len(log) : log[j - 1].turn <= log[j].turn

C9_Witness ==
  /\ turn = 2
  /\ pc \in {"send_result", "stream"}
  /\ \E j \in DOMAIN log : log[j].turn = 1 /\ log[j].ev \in {"result", "agent_event"}

\* ---- C10
\* C10: the transcript only grows by appends, and what is passed to the model
\* starts with the seeded system message.
C10_AppendOnly ==
  /\ [][IsPrefix(messages, messages')]_vars
  /\ [](snapshot # <<>> => snapshot[1] = SystemMessage)

C10_Witness ==
  /\ turn = 2
  /\ Len(snapshot) >= 5
  /\ Len(messages) > Len(snapshot)

\* ---- C11
\* C11: the messages passed to the model on behalf of a connection are the
\* system message and messages of that connection's own turns only.
\* app1.py's connections all run the one module-level `assistant`.
C11_NoSharedTranscript ==
  \A s \in Connections :
    \A i \in DOMAIN mRequest[s] : mRequest[s][i].owner \in {0, s}

\* ---- C12
\* a handler suspended on the model's response or on a tool's external I/O
Waiting(s) == mPc[s] \in {"awaiting_model", "awaiting_tool"}

\* C12: while one connection waits for the model or for a tool, another
\* connection with a user message pending can receive it.
\* app.py makes both calls synchronously, inside the event loop.
C12_NoBlocking ==
  \A s, t \in Connections :
    (s # t /\ Waiting(s) /\ mPc[t] = "recv" /\ mInbox[t] > 0) =>
       ENABLED (ConnReceive(t) \/ ConnReceiveAgent(t))

\* ---- C13
CeilDiv(a, b) == (a + b - 1) \div b

\* C13: chunk_text returns ceil(max(0, N - W) / (W - O)) + 1 chunks (1 when
\* N <= W). The loop of chunk_text runs once per start in 0, W-O, 2(W-O), ...
\* below N: ceil(N / (W - O)) chunks (and none for N = 0, left aside here).
C13_ChunkCount ==
  (cPc = "done" /\ cWords >= 1) =>
    Len(cChunks) = CeilDiv(Max(0, cWords - cSize), cSize - cOverlap) + 1

\* ---- C14
IngestSucceeded == iPc = "done" /\ response.status = "success"

\* the ingestion of a `text` field of 1200 words (no PDF) has succeeded
Ingested1200Words ==
  IngestSucceeded /\ text.kind = "text" /\ text.words = 1200

\* C14 as stated: 1200 words with the default window and overlap report
\* chunks_stored == 4.
C14_FourChunks == Ingested1200Words => response.chunks_stored = 4

\* C14 amended: they report chunks_stored == 3 (starts 0, 400, 800).
C14_ThreeChunks == Ingested1200Words => response.chunks_stored = 3

C14_Witness == Ingested1200Words /\ Len(vectors) = 3

\* ---- C15
\* C15: when text is provided it is what is chunked and the source reported is
\* "text", also when a PDF is supplied with it.
C15_TextIsProcessedAsGiven ==
  (IngestSucceeded /\ TextGiven(iText)) =>
     /\ response.source = "text"
     /\ text.kind = "text"
     /\ text.words = iText.words
     /\ \A k \in DOMAIN vectors : vectors[k].text.origin = "text"

\* ---- C16
IngestFailed == iPc = "done" /\ response.status # "success"

\* C16: a failed ingestion answers with the structured error response and
\* upserts nothing.
C16_FailureIsStructured ==
  IngestFailed =>
     /\ response.status = "error"
     /\ \A k \in DOMAIN index : index[k].document_id # document_id

\* ---- C17
\* the vectors of this ingestion that the index holds
Upserted == SelectSeq(index, LAMBDA v : v.document_id = document_id)

\* C17: after a successful ingestion the upserted vectors carry one new
\* document_id, their chunk_index values are distinct and exactly
\* 0 .. total_chunks - 1, and chunks_stored is the number of vectors upserted.
C17_ChunkIndexComplete ==
  IngestSucceeded =>
     /\ Upserted = vectors
     /\ \A k \in DOMAIN vectors :
          /\ vectors[k].document_id = document_id
          /\ vectors[k].total_chunks = Len(chunks)
     /\ \A j, k \in DOMAIN vectors :
          j # k => vectors[j].chunk_index # vectors[k].chunk_index
     /\ {vectors[k].chunk_index : k \in DOMAIN vectors} = 0..(Len(chunks) - 1)
     /\ response.chunks_stored = Len(vectors)

\* ---- C18
\* C18: the text stored with a chunk, and returned for it by retrieval, is the
\* whole text of the chunk.
C18_FullChunkStored ==
  IngestSucceeded =>
    \A k \in DOMAIN Upserted :
      /\ RetrievedEntry(Upserted[k]).text.lo = chunks[k].lo
      /\ RetrievedEntry(Upserted[k]).text.chars = ChunkChars(chunks[k])

\* ---- C19
\* Whatever label in {0,1} and probability in [0,1] the classifier yields for
\* a valid argument set, the dictionary returned has prediction in {0,1},
\* probability in [0,1], and diabetes = "Yes" exactly when prediction = 1.
C19_PredictionContract ==
  pPc = "done" =>
    /\ pResult.prediction \in {0, 1}
    /\ pResult.prediction = pLabel
    /\ pResult.probability \in 0..Scale
    /\ pResult.diabetes \in {"Yes", "No"}
    /\ (pResult.diabetes = "Yes") <=> (pResult.prediction = 1)

C19_Witness ==
  /\ pPc = "done"
  /\ pLabel = 1
  /\ pProbability = ProbSteps
  /\ pResult.diabetes = "Yes"
  /\ pResult.probability = Scale

\* ---- C20
\* the frames that report a tool call
ThoughtKinds == {"announce", "result"}

\* the inference just returned and the handler goes on
JustInferred == gateway = "raw" /\ log # <<>> /\ Last(log).ev = "infer" /\ pc # "ended"

\* the turn has been answered and the handler awaits the next message
Answered == gateway = "raw" /\ pc = "recv" /\ turn >= 1

\* C20: after an inference the loop of app.py runs tools exactly when the
\* response carries tool calls; a response without tool calls is appended to
\* the transcript and sent as the one assistant frame of the turn, which ends
\* there; a turn answered by its first inference shows no thought frame.
C20_ToolsIffToolCalls ==
  /\ JustInferred =>
       /\ (message.tool_calls # <<>>) <=> (pc = "announce")
       /\ (message.tool_calls = <<>>) <=> (pc = "send_final")
       /\ Last(messages) = message
  /\ (gateway = "raw" /\ pc \in {"announce", "dispatch", "send_result"}) =>
       message.tool_calls # <<>>
  /\ (gateway = "raw" /\ pc = "send_final") =>
       /\ message.tool_calls = <<>>
       /\ Last(messages) = message
       /\ \A k \in DOMAIN TurnFrames : TurnFrames[k].ev # "assistant"
  /\ Answered =>
       /\ Last(messages) = message
       /\ message.tool_calls = <<>>
       /\ Last(log) = Event("assistant", turn, 0)
       /\ Cardinality({k \in DOMAIN TurnFrames : TurnFrames[k].ev = "assistant"}) = 1
       /\ Cardinality({k \in DOMAIN TurnFrames : TurnFrames[k].ev \in ThoughtKinds})
            = 2 * Cardinality({k \in DOMAIN log :
                                  log[k].turn = turn /\ log[k].ev = "dispatch"})
       /\ roundTrips = 0 => TurnFrames = <<Event("assistant", turn, 0)>>

\* a second turn answered directly, after a first turn that ran tools
C20_Witness ==
  /\ Answered
  /\ connected
  /\ turn = 2
  /\ roundTrips = 0
  /\ TurnFrames = <<Event("assistant", turn, 0)>>
  /\ \E k \in DOMAIN log : log[k].turn = 1 /\ log[k].ev \in ThoughtKinds

\* ---- C21
\* the number of words of a chunk
ChunkWords(c) == c.hi - c.lo

\* chunk c begins with the last `overlap` words of the full chunk p
StartsWithTailOf(c, p) ==
  /\ ChunkWords(p) = cSize
  /\ ChunkWords(c) >= cOverlap
  /\ c.lo = p.hi - cOverlap

\* C21: for 0 <= overlap < chunk_size, chunk_text returns after at most one
\* iteration per word; every word lies in some chunk, the chunks being runs
\* of consecutive words with increasing starts; no chunk has more than
\* chunk_size words; every chunk after the first begins with the last
\* `overlap` words of a full chunk before it.
\* The last chunks of chunk_text may follow a chunk cut short by the end of
\* the text, and may be shorter than `overlap`.
C21_ChunksCoverAndOverlap ==
  cPc = "done" =>
    /\ Len(cChunks) <= cWords
    /\ \A w \in 0..(cWords - 1) :
         \E k \in DOMAIN cChunks : cChunks[k].lo <= w /\ w < cChunks[k].hi
    /\ \A k \in DOMAIN cChunks :
         /\ cChunks[k].lo < cChunks[k].hi
         /\ ChunkWords(cChunks[k]) <= cSize
         /\ k > 1 => cChunks[k - 1].lo < cChunks[k].lo
    /\ \A k \in 2..Len(cChunks) :
         \E j \in 1..(k - 1) : StartsWithTailOf(cChunks[k], cChunks[j])

====
